---- MODULE Spec2Model ----
(***************************************************************************)
(* Model of harvest/harvest.py: the Harvest client's request pipeline      *)
(* (Harvest._request with its 503 retry protocol and error mapping), the   *)
(* query construction of get_projects / get_tasks, the date formatting of  *)
(* _format_date, and the module-level status() helper.                     *)
(*                                                                         *)
(* Strings that the code takes apart or builds (header values, URLs, JSON  *)
(* bodies) are sequences of string tokens; everything else is a string.    *)
(* An optional argument is <<>> (None) or <<v>>.                           *)
(***************************************************************************)
EXTENDS Integers, Sequences, FiniteSets, TLC

VARIABLES
    self,        \* the instance's mutable attributes: a function on a subset of {"_retries"}
    pc,          \* per thread: where the thread is inside its logical call
    call,        \* per thread: the facade operation called and its arguments
    req,         \* per thread: _request's arguments (method, path, data)
    resp,        \* per thread: the last response requests.request returned
    retry_after, \* per thread: the local retry_after of the 503 handler
    tmp,         \* per thread: the value getattr(self, '_retries', 0) + 1 before it is stored
    result,      \* per thread: what the logical call returned or raised
    attempts,    \* per thread: HTTP attempts issued by the current logical call
    n503,        \* per thread: 503 responses received by the current logical call
    sleeps,      \* per thread: number of time.sleep calls and seconds slept in the current call,
                 \*             and the seconds the 503 responses of the call asked for
    sent,        \* per thread: the distinct kwargs handed to requests.request by the current call
    calls        \* per thread: logical calls started so far

vars == <<self, pc, call, req, resp, retry_after, tmp, result, attempts, n503, sleeps, sent, calls>>

----------------------------------------------------------------------------
(* Bounds of the model. *)

\* logical calls a thread makes one after another in the sequential specification
MaxCalls == 2

\* logical calls each thread makes in the concurrent specification
ConcCalls == 1

\* the two threads of the concurrent specification
Threads == {1, 2}

----------------------------------------------------------------------------
(* Values. *)

None == <<>>

Some(v) == <<v>>

\* the ceiling of the retry counter (line 243: if self._retries > 5)
RetryCeiling == 5

\* the base URI the client was constructed with (line 32)
uri == <<"https://acme.harvestapp.com">>

NoHeaders == <<>>

NoBody == <<>>

NoResp == [status |-> 0, headers |-> NoHeaders, body |-> NoBody]

NoData == <<>>

NoReq == [method |-> "", path |-> <<>>, data |-> NoData]

NoCall == [op |-> "", client_id |-> None, updated_since |-> None]

----------------------------------------------------------------------------
(* JSON: resp.json() on a body given as tokens. The bodies of the model are  *)
(* an object with at most one member, an empty array, and text that is no  *)
(* JSON at all; anything the grammar below does not accept is a parse      *)
(* error (ValueError).                                                     *)

JsonError == [ok |-> FALSE, type |-> "", map |-> <<>>, str |-> ""]

JsonObject(m) == [ok |-> TRUE, type |-> "object", map |-> m, str |-> ""]

JsonArray == [ok |-> TRUE, type |-> "array", map |-> <<>>, str |-> ""]

JsonString(v) == [ok |-> TRUE, type |-> "string", map |-> <<>>, str |-> v]

json(body) ==
    IF body = <<"{", "}">> THEN JsonObject(<<>>)
    ELSE IF Len(body) = 5 /\ body[1] = "{" /\ body[3] = ":" /\ body[5] = "}"
              /\ body[2] \notin {"{", "}", ":", "[", "]"}
              /\ body[4] \notin {"{", "}", ":", "[", "]"}
         THEN JsonObject(body[2] :> body[4])
    ELSE IF body = <<"[", "]">> THEN JsonArray
    ELSE JsonError

----------------------------------------------------------------------------
(* int(): Python's int() on a string given as characters: an optional sign *)
(* and one or more decimal digits; anything else raises ValueError.        *)

Digits == <<"0", "1", "2", "3", "4", "5", "6", "7", "8", "9">>

IsDigit(c) == \E i \in 1..Len(Digits) : Digits[i] = c

DigitValue(c) == (CHOOSE i \in 1..Len(Digits) : Digits[i] = c) - 1

RECURSIVE DecimalValue(_)
DecimalValue(s) ==
    IF s = <<>> THEN 0
    ELSE 10 * DecimalValue(SubSeq(s, 1, Len(s) - 1)) + DigitValue(s[Len(s)])

AllDigits(s) == Len(s) > 0 /\ \A i \in 1..Len(s) : IsDigit(s[i])

int_ok(s) ==
    \/ AllDigits(s)
    \/ Len(s) > 1 /\ s[1] \in {"-", "+"} /\ AllDigits(Tail(s))

int(s) ==
    IF AllDigits(s) THEN DecimalValue(s)
    ELSE IF s[1] = "-" THEN 0 - DecimalValue(Tail(s))
    ELSE DecimalValue(Tail(s))

\* dict.get(key, default)
get(d, key, default) == IF key \in DOMAIN d THEN d[key] ELSE default

\* getattr(obj, name, default)
getattr(obj, name, default) == IF name \in DOMAIN obj THEN obj[name] ELSE default

----------------------------------------------------------------------------
(* Dates: _parse_date and _format_date. A date is a record of year, month   *)
(* and day; strftime('%a, %-d %b %Y') needs its weekday, computed as       *)
(* datetime.date does, from the proleptic Gregorian ordinal.               *)

Dates == { [year |-> 2024, month |-> 6, day |-> 3],
           [year |-> 2023, month |-> 12, day |-> 31] }

is_leap(y) == y % 4 = 0 /\ (y % 100 # 0 \/ y % 400 = 0)

days_before_year(y) ==
    (y - 1) * 365 + ((y - 1) \div 4) - ((y - 1) \div 100) + ((y - 1) \div 400)

DaysBeforeMonth == <<0, 31, 59, 90, 120, 151, 181, 212, 243, 273, 304, 334>>

days_before_month(y, m) == DaysBeforeMonth[m] + (IF m > 2 /\ is_leap(y) THEN 1 ELSE 0)

toordinal(d) == days_before_year(d.year) + days_before_month(d.year, d.month) + d.day

weekday(d) == (toordinal(d) + 6) % 7

WeekdayAbbr == <<"Mon", "Tue", "Wed", "Thu", "Fri", "Sat", "Sun">>

MonthAbbr == <<"Jan", "Feb", "Mar", "Apr", "May", "Jun",
               "Jul", "Aug", "Sep", "Oct", "Nov", "Dec">>

\* a date is returned as it is (the branches for datetime and str are not exercised)
_parse_date(date_input) == date_input

_format_date(date_input) ==
    LET date == _parse_date(date_input)
    IN  WeekdayAbbr[weekday(date) + 1] \o ", " \o ToString(date.day) \o " "
            \o MonthAbbr[date.month] \o " " \o ToString(date.year)

----------------------------------------------------------------------------
(* Resource facade: each method builds a path (tokens) and delegates to    *)
(* _get / _post / _put / _delete, that is to _request.                     *)

Ids == {7}

OptionalIds == {None} \cup {Some(i) : i \in Ids}

OptionalDates == {None} \cup {Some(d) : d \in Dates}

\* '{0}?updated_since={1}'.format(url, updated_since)
with_updated_since(url, updated_since) ==
    url \o <<"?", "updated_since", "=", updated_since>>

\* '{0}?client={1}'.format(url, client_id)
with_client(url, client_id) ==
    url \o <<"?", "client", "=", ToString(client_id)>>

\* the body shared by get_projects and get_tasks, for the base path `base`
filtered_url(base, client_id, updated_since) ==
    LET url1 == IF updated_since # None
                THEN with_updated_since(<<base>>, _format_date(updated_since[1]))
                ELSE <<base>>
    IN  IF client_id # None THEN with_client(url1, client_id[1]) ELSE url1

get_projects_url(client_id, updated_since) ==
    filtered_url("/projects", client_id, updated_since)

get_tasks_url(client_id, updated_since) ==
    filtered_url("/tasks", client_id, updated_since)

\* '/projects/{0}'.format(project_id)
project_url(project_id) == <<"/projects/", ToString(project_id)>>

\* the kwargs of requests.request built at lines 223-228
kwargs(r) == [method |-> r.method, url |-> uri \o r.path, data |-> r.data]

----------------------------------------------------------------------------
(* The transport: what requests.request can answer.                         *)

RetryAfterValues == { <<"1">>, <<"2">>, <<"W", "e", "d">>, <<"-", "1">> }

ThrottleHeaders == {NoHeaders} \cup { ("Retry-After" :> v) : v \in RetryAfterValues }

SuccessBodies == { <<"{", "}">>, <<"{", "id", ":", "7", "}">>, <<"[", "]">>,
                   <<"<html>">>, NoBody }

Responses ==
    { [status |-> s, headers |-> NoHeaders, body |-> b] :
          s \in {200, 201}, b \in SuccessBodies }
    \cup { [status |-> s, headers |-> NoHeaders, body |-> <<"<html>">>] :
          s \in {304, 400, 401, 404, 500} }
    \cup { [status |-> 503, headers |-> h, body |-> NoBody] : h \in ThrottleHeaders }

\* Response.raise_for_status raises HTTPError for a 4xx or 5xx status
raises_for_status(r) == 400 <= r.status /\ r.status < 600

----------------------------------------------------------------------------
(* Outcomes of a logical call.                                             *)

NoResult == [kind |-> "none", exc |-> "", resp |-> NoResp, value |-> JsonError]

Return(v) == [kind |-> "return", exc |-> "", resp |-> NoResp, value |-> v]

ReturnResponse(r) == [kind |-> "return_response", exc |-> "", resp |-> r, value |-> JsonError]

\* an exception; r is the response it carries (NoResp when it carries none)
Raise(e, r) == [kind |-> "raise", exc |-> e, resp |-> r, value |-> JsonError]

NoSleeps == [count |-> 0, total |-> 0, due |-> 0]

\* 'DELETE' not in method, for the methods _get, _post, _put and _delete pass
is_delete(method) == method = "DELETE"

\* on_success with the DELETE test dropped: every body is parsed
on_success_always_parses(method, r) ==
    IF json(r.body).ok THEN Return(json(r.body)) ELSE Raise("ValueError", NoResp)

\* lines 234-237: the response did not raise for its status
on_success(method, r) ==
    IF ~is_delete(method)
    THEN IF json(r.body).ok THEN Return(json(r.body)) ELSE Raise("ValueError", NoResp)
    ELSE ReturnResponse(r)

\* error_class with the tests for 404 and 401 exchanged
error_class_swapped(status) ==
    IF status = 401 THEN "NotFoundError"
    ELSE IF status = 404 THEN "UnauthorizedError"
    ELSE "Error"

\* lines 249-253: the class raised for an HTTP error status other than 503
error_class(status) ==
    IF status = 404 THEN "NotFoundError"
    ELSE IF status = 401 THEN "UnauthorizedError"
    ELSE "Error"

\* line 241: resp.headers.get('Retry-After', '15'), still a string
retry_after_header(r) == get(r.headers, "Retry-After", <<"1", "5">>)

----------------------------------------------------------------------------
(* Init: a freshly constructed client (no _retries attribute yet), every   *)
(* thread outside any call.                                                *)

Init ==
    /\ self = <<>>
    /\ pc = [t \in Threads |-> "idle"]
    /\ call = [t \in Threads |-> NoCall]
    /\ req = [t \in Threads |-> NoReq]
    /\ resp = [t \in Threads |-> NoResp]
    /\ retry_after = [t \in Threads |-> 0]
    /\ tmp = [t \in Threads |-> 0]
    /\ result = [t \in Threads |-> NoResult]
    /\ attempts = [t \in Threads |-> 0]
    /\ n503 = [t \in Threads |-> 0]
    /\ sleeps = [t \in Threads |-> NoSleeps]
    /\ sent = [t \in Threads |-> {}]
    /\ calls = [t \in Threads |-> 0]

\* thread t enters _request(method, path, data) from facade method op; n bounds its calls
_request(t, n, op, client_id, updated_since, method, path, data) ==
    /\ pc[t] = "idle"
    /\ calls[t] < n
    /\ calls' = [calls EXCEPT ![t] = @ + 1]
    /\ call' = [call EXCEPT ![t] =
                  [op |-> op, client_id |-> client_id, updated_since |-> updated_since]]
    /\ req' = [req EXCEPT ![t] = [method |-> method, path |-> path, data |-> data]]
    /\ pc' = [pc EXCEPT ![t] = "request"]
    /\ resp' = [resp EXCEPT ![t] = NoResp]
    /\ result' = [result EXCEPT ![t] = NoResult]
    /\ attempts' = [attempts EXCEPT ![t] = 0]
    /\ n503' = [n503 EXCEPT ![t] = 0]
    /\ sleeps' = [sleeps EXCEPT ![t] = NoSleeps]
    /\ sent' = [sent EXCEPT ![t] = {}]
    /\ retry_after' = [retry_after EXCEPT ![t] = 0]
    /\ tmp' = [tmp EXCEPT ![t] = 0]
    /\ UNCHANGED self

get_projects(t, n) ==
    \E client_id \in OptionalIds, updated_since \in OptionalDates :
        _request(t, n, "get_projects", client_id, updated_since,
                 "GET", get_projects_url(client_id, updated_since), NoData)

get_tasks(t, n) ==
    \E client_id \in OptionalIds, updated_since \in OptionalDates :
        _request(t, n, "get_tasks", client_id, updated_since,
                 "GET", get_tasks_url(client_id, updated_since), NoData)

create_project(t, n) ==
    _request(t, n, "create_project", None, None, "POST", <<"/projects">>,
             ("name" :> "Website"))

update_project(t, n) ==
    \E project_id \in Ids :
        _request(t, n, "update_project", None, None, "PUT", project_url(project_id),
                 ("notes" :> "x"))

delete_project(t, n) ==
    \E project_id \in Ids :
        _request(t, n, "delete_project", None, None, "DELETE", project_url(project_id),
                 NoData)

----------------------------------------------------------------------------
(* Harvest._request, one shared-memory or I/O step per action.             *)

\* line 233 raises: a transport error is no HTTPError and leaves _request
request_raises(t) ==
    /\ pc[t] = "request"
    /\ attempts' = [attempts EXCEPT ![t] = @ + 1]
    /\ sent' = [sent EXCEPT ![t] = @ \cup {kwargs(req[t])}]
    /\ resp' = [resp EXCEPT ![t] = NoResp]
    /\ result' = [result EXCEPT ![t] = Raise("ConnectionError", NoResp)]
    /\ pc' = [pc EXCEPT ![t] = "done"]
    /\ UNCHANGED <<self, call, req, retry_after, tmp, n503, sleeps, calls>>

\* what the 503 branch asks the caller to wait, were the header read as the
\* specification reads it (kept only to compare the sleeps against)
asked_delay(r) ==
    IF AllDigits(retry_after_header(r)) THEN int(retry_after_header(r)) ELSE 15

\* lines 233-241 and 249-253: the request is answered with some r of answers
request_returns(t, answers) ==
    \E r \in answers :
        /\ pc[t] = "request"
        /\ attempts' = [attempts EXCEPT ![t] = @ + 1]
        /\ sent' = [sent EXCEPT ![t] = @ \cup {kwargs(req[t])}]
        /\ resp' = [resp EXCEPT ![t] = r]
        /\ IF ~raises_for_status(r)
           THEN /\ result' = [result EXCEPT ![t] = on_success(req[t].method, r)]
                /\ pc' = [pc EXCEPT ![t] = "done"]
                /\ UNCHANGED <<retry_after, n503, sleeps>>
           ELSE IF r.status = 503
           THEN /\ n503' = [n503 EXCEPT ![t] = @ + 1]
                /\ sleeps' = [sleeps EXCEPT ![t].due = @ + asked_delay(r)]
                /\ IF int_ok(retry_after_header(r))
                   THEN /\ retry_after' = [retry_after EXCEPT ![t] =
                                              int(retry_after_header(r))]
                        /\ pc' = [pc EXCEPT ![t] = "getattr"]
                        /\ UNCHANGED result
                   ELSE /\ result' = [result EXCEPT ![t] = Raise("ValueError", NoResp)]
                        /\ pc' = [pc EXCEPT ![t] = "done"]
                        /\ UNCHANGED retry_after
           ELSE /\ result' = [result EXCEPT ![t] = Raise(error_class(r.status), r)]
                /\ pc' = [pc EXCEPT ![t] = "done"]
                /\ UNCHANGED <<retry_after, n503, sleeps>>
        /\ UNCHANGED <<self, call, req, tmp, calls>>

\* line 242, right-hand side: getattr(self, '_retries', 0) + 1
read_retries(t) ==
    /\ pc[t] = "getattr"
    /\ tmp' = [tmp EXCEPT ![t] = getattr(self, "_retries", 0) + 1]
    /\ pc' = [pc EXCEPT ![t] = "setattr"]
    /\ UNCHANGED <<self, call, req, resp, retry_after, result, attempts, n503, sleeps,
                   sent, calls>>

\* line 242, the assignment to self._retries
write_retries(t) ==
    /\ pc[t] = "setattr"
    /\ self' = ("_retries" :> tmp[t])
    /\ pc' = [pc EXCEPT ![t] = "check"]
    /\ UNCHANGED <<call, req, resp, retry_after, tmp, result, attempts, n503, sleeps,
                   sent, calls>>

\* line 243: the attribute is read again and compared with the ceiling
exhausted(retries) == retries > RetryCeiling

\* lines 243-246: the bare raise re-raises the requests.HTTPError of raise_for_status
check_retries(t) ==
    /\ pc[t] = "check"
    /\ IF exhausted(self["_retries"])
       THEN /\ result' = [result EXCEPT ![t] = Raise("HTTPError", resp[t])]
            /\ pc' = [pc EXCEPT ![t] = "done"]
       ELSE /\ pc' = [pc EXCEPT ![t] = "sleep"]
            /\ UNCHANGED result
    /\ UNCHANGED <<self, call, req, resp, retry_after, tmp, attempts, n503, sleeps,
                   sent, calls>>

\* lines 247-248: time.sleep(retry_after), which refuses a negative length, and
\* then the recursive self._request(method, path, data)
sleep(t) ==
    /\ pc[t] = "sleep"
    /\ IF retry_after[t] < 0
       THEN /\ result' = [result EXCEPT ![t] = Raise("ValueError", NoResp)]
            /\ pc' = [pc EXCEPT ![t] = "done"]
            /\ UNCHANGED sleeps
       ELSE /\ sleeps' = [sleeps EXCEPT ![t].count = @ + 1,
                                        ![t].total = @ + retry_after[t]]
            /\ pc' = [pc EXCEPT ![t] = "request"]
            /\ UNCHANGED result
    /\ UNCHANGED <<self, call, req, resp, retry_after, tmp, attempts, n503, sent, calls>>

\* the logical call is over: its result or exception reaches the caller, and the
\* frame's locals are gone
returns(t) ==
    /\ pc[t] = "done"
    /\ pc' = [pc EXCEPT ![t] = "idle"]
    /\ call' = [call EXCEPT ![t] = NoCall]
    /\ req' = [req EXCEPT ![t] = NoReq]
    /\ resp' = [resp EXCEPT ![t] = NoResp]
    /\ result' = [result EXCEPT ![t] = NoResult]
    /\ attempts' = [attempts EXCEPT ![t] = 0]
    /\ n503' = [n503 EXCEPT ![t] = 0]
    /\ sleeps' = [sleeps EXCEPT ![t] = NoSleeps]
    /\ sent' = [sent EXCEPT ![t] = {}]
    /\ retry_after' = [retry_after EXCEPT ![t] = 0]
    /\ tmp' = [tmp EXCEPT ![t] = 0]
    /\ UNCHANGED <<self, calls>>

----------------------------------------------------------------------------
(* status(): the module-level helper, which touches no instance state.     *)

StatusBodies == { <<"{", "status", ":", "up", "}">>, <<"{", "}">>, <<"[", "]">>,
                  <<"<html>">> }

StatusResponses ==
    { [status |-> s, headers |-> NoHeaders, body |-> b] : s \in {200, 500}, b \in StatusBodies }

EmptyDict == JsonObject(<<>>)

\* line 263 on a response r: r.json().get('status', {}); any exception gives {} (line 265)
status_of(r) ==
    IF ~json(r.body).ok THEN EmptyDict
    ELSE IF json(r.body).type # "object" THEN EmptyDict
    ELSE IF "status" \in DOMAIN json(r.body).map
         THEN JsonString(json(r.body).map["status"])
    ELSE EmptyDict

\* status_result with a raise_for_status() added: a non-2xx response gives {}
status_result_checks_status(raised, r) ==
    IF raised \/ ~(200 <= r.status /\ r.status < 300)
    THEN Return(EmptyDict)
    ELSE Return(status_of(r))

\* lines 262-266, requests.get having raised (raised = TRUE) or returned r
status_result(raised, r) == IF raised THEN Return(EmptyDict) ELSE Return(status_of(r))

StatusStep(t, n, raised, r) ==
    /\ pc[t] = "idle"
    /\ calls[t] < n
    /\ calls' = [calls EXCEPT ![t] = @ + 1]
    /\ call' = [call EXCEPT ![t] =
                  [op |-> "status", client_id |-> None, updated_since |-> None]]
    /\ req' = [req EXCEPT ![t] = NoReq]
    /\ resp' = [resp EXCEPT ![t] = r]
    /\ result' = [result EXCEPT ![t] = status_result(raised, r)]
    /\ pc' = [pc EXCEPT ![t] = "done"]
    /\ attempts' = [attempts EXCEPT ![t] = 0]
    /\ n503' = [n503 EXCEPT ![t] = 0]
    /\ sleeps' = [sleeps EXCEPT ![t] = NoSleeps]
    /\ sent' = [sent EXCEPT ![t] = {}]
    /\ retry_after' = [retry_after EXCEPT ![t] = 0]
    /\ tmp' = [tmp EXCEPT ![t] = 0]
    /\ UNCHANGED self

status(t, n) ==
    \/ StatusStep(t, n, TRUE, NoResp)
    \/ \E r \in StatusResponses : StatusStep(t, n, FALSE, r)

----------------------------------------------------------------------------
(* Specifications.                                                         *)

\* one thread making up to MaxCalls logical calls one after another on one client
Next ==
    \/ get_projects(1, MaxCalls)
    \/ get_tasks(1, MaxCalls)
    \/ create_project(1, MaxCalls)
    \/ update_project(1, MaxCalls)
    \/ delete_project(1, MaxCalls)
    \/ status(1, MaxCalls)
    \/ request_raises(1)
    \/ request_returns(1, Responses)
    \/ read_retries(1)
    \/ write_retries(1)
    \/ check_retries(1)
    \/ sleep(1)
    \/ returns(1)

Spec == Init /\ [][Next]_vars

\* what the server answers in the concurrent specification
ConcResponses ==
    { [status |-> 200, headers |-> NoHeaders, body |-> <<"{", "}">>],
      [status |-> 503, headers |-> ("Retry-After" :> <<"1">>), body |-> NoBody] }

\* two threads, each making ConcCalls logical calls on the one client they share,
\* their steps interleaved in any order
NextConc ==
    \E t \in Threads :
        \/ create_project(t, ConcCalls)
        \/ delete_project(t, ConcCalls)
        \/ request_raises(t)
        \/ request_returns(t, ConcResponses)
        \/ read_retries(t)
        \/ write_retries(t)
        \/ check_retries(t)
        \/ sleep(t)
        \/ returns(t)

SpecConc == Init /\ [][NextConc]_vars

----------------------------------------------------------------------------
(* Reading a URL back: the query string starts after the first "?", its     *)
(* parameters are separated by "&", and each is a key, "=", and a value.   *)

RECURSIVE IndexOf(_, _, _)
IndexOf(tokens, tok, i) ==
    IF i > Len(tokens) THEN 0
    ELSE IF tokens[i] = tok THEN i
    ELSE IndexOf(tokens, tok, i + 1)

Count(tokens, tok) == Cardinality({i \in 1..Len(tokens) : tokens[i] = tok})

QueryOf(url) ==
    IF IndexOf(url, "?", 1) = 0 THEN <<>>
    ELSE SubSeq(url, IndexOf(url, "?", 1) + 1, Len(url))

RECURSIVE SplitParams(_)
SplitParams(query) ==
    IF query = <<>> THEN {}
    ELSE IF IndexOf(query, "&", 1) = 0 THEN {query}
    ELSE {SubSeq(query, 1, IndexOf(query, "&", 1) - 1)}
            \cup SplitParams(SubSeq(query, IndexOf(query, "&", 1) + 1, Len(query)))

\* the parameters of a URL, each as <<key, value tokens>>
QueryParams(url) ==
    { <<p[1], SubSeq(p, 3, Len(p))>> : p \in {q \in SplitParams(QueryOf(url)) : Len(q) >= 2} }

----------------------------------------------------------------------------
(* Claims.                                                                 *)

InRequest(t) == req[t] # NoReq

Is2xx(r) == 200 <= r.status /\ r.status < 300

Taxonomy == {"NotFoundError", "UnauthorizedError", "Error"}

\* C1: on a client that has made no earlier call, a logical call whose every
\* HTTP attempt is answered with 503 issues exactly 6 attempts, sleeps before
\* each of the 5 retries, and then fails; never a 7th attempt, never fewer than 6.
C1_SixAttemptsThenFail ==
    \A t \in Threads :
        (InRequest(t) /\ calls[t] = 1 /\ n503[t] = attempts[t]) =>
            /\ attempts[t] <= RetryCeiling + 1
            /\ pc[t] = "done" =>
                  /\ attempts[t] = RetryCeiling + 1
                  /\ sleeps[t].count = RetryCeiling
                  /\ result[t].kind = "raise"

\* C2: the retry counter is scoped to one logical call: every logical call
\* starts with an attempt count of zero, whatever 503 responses earlier calls
\* on the client received.
C2_CounterStartsAtZero ==
    \A t \in Threads :
        (InRequest(t) /\ attempts[t] = 0) => getattr(self, "_retries", 0) = 0

\* C3: a logical call answered with k <= 5 times 503 and then a 2xx succeeds and
\* returns the result of the final response, having slept exactly k times for
\* the Retry-After values of the 503 responses, every attempt sending the same
\* method, path and body. (So a call that has seen only 503, at most 5 of
\* them, does not give up for throttling; the final response is one that has a
\* result: its body parses, or the method is DELETE.)
C3_RetriesThenSuccess ==
    \A t \in Threads :
        (InRequest(t) /\ pc[t] = "done" /\ n503[t] <= RetryCeiling) =>
            /\ ~(n503[t] = attempts[t] /\ result[t].exc = "HTTPError")
            /\ (Is2xx(resp[t]) /\ n503[t] = attempts[t] - 1
                  /\ (req[t].method = "DELETE" \/ json(resp[t].body).ok)) =>
                  /\ result[t].kind \in {"return", "return_response"}
                  /\ result[t].kind = "return" => result[t].value = json(resp[t].body)
                  /\ result[t].kind = "return_response" => result[t].resp = resp[t]
                  /\ sleeps[t].count = n503[t]
                  /\ sleeps[t].total = sleeps[t].due
                  /\ Cardinality(sent[t]) = 1

\* C4: a 404 response makes the call fail with NotFoundError, a 401 with
\* UnauthorizedError, any other 4xx/5xx except 503 with the generic Error; the
\* error carries that response (and so its status code), and the call is over
\* on that response: no sleep and no further attempt follow it.
C4_ErrorMapping ==
    \A t \in Threads :
        (InRequest(t) /\ raises_for_status(resp[t]) /\ resp[t].status # 503) =>
            /\ pc[t] = "done"
            /\ result[t].kind = "raise"
            /\ resp[t].status = 404 => result[t].exc = "NotFoundError"
            /\ resp[t].status = 401 => result[t].exc = "UnauthorizedError"
            /\ resp[t].status \notin {404, 401} => result[t].exc = "Error"
            /\ result[t].resp = resp[t]
            /\ result[t].resp.status = resp[t].status

\* C4 witness: a call that was throttled once and then answered 404 has failed
\* with NotFoundError carrying the 404 response.
C4_Witness ==
    /\ pc[1] = "done"
    /\ resp[1].status = 404
    /\ sleeps[1].count = 1
    /\ attempts[1] = 2
    /\ result[1] = Raise("NotFoundError", resp[1])

\* C5: every logical call that fails because of an HTTP error status, retries
\* exhausted included, raises NotFoundError, UnauthorizedError or Error, and the
\* error carries the response; no other error type reaches the caller. (The
\* ValueError of a Retry-After header that int() refuses is the matter of C6
\* and is left out here.)
C5_TaxonomyOnly ==
    \A t \in Threads :
        (InRequest(t) /\ pc[t] = "done" /\ raises_for_status(resp[t])
            /\ result[t].kind = "raise" /\ result[t].exc # "ValueError") =>
            /\ result[t].exc \in Taxonomy
            /\ result[t].resp = resp[t]

\* C6: on a 503 the sleep before the retry lasts the numeric Retry-After value
\* when the header is present and numeric and 15 seconds when it is absent or
\* not numeric, and in the latter cases too the call goes on to retry: it ends
\* on a 503 only by reaching the ceiling.
C6_RetryAfterDefault ==
    \A t \in Threads :
        (InRequest(t) /\ resp[t].status = 503) =>
            /\ pc[t] \in {"getattr", "setattr", "check", "sleep"} =>
                  retry_after[t] = asked_delay(resp[t])
            /\ pc[t] = "done" => result[t].exc # "ValueError"

\* C7: get_projects and get_tasks request the bare path when client_id and
\* updated_since are both absent, and otherwise a path with one well-formed
\* query string (a single "?", parameters separated by "&") that carries
\* exactly the parameters given, each with its own value.
C7_WellFormedQuery ==
    \A t \in Threads :
        call[t].op \in {"get_projects", "get_tasks"} =>
            LET base == IF call[t].op = "get_projects" THEN "/projects" ELSE "/tasks"
                given ==
                    { <<"client", <<ToString(call[t].client_id[i])>> >> :
                          i \in DOMAIN call[t].client_id }
                    \cup { <<"updated_since", <<_format_date(call[t].updated_since[i])>> >> :
                          i \in DOMAIN call[t].updated_since }
            IN  /\ req[t].path[1] = base
                /\ given = {} => req[t].path = <<base>>
                /\ given # {} =>
                      /\ Count(req[t].path, "?") = 1
                      /\ Count(req[t].path, "&") = Cardinality(given) - 1
                      /\ QueryParams(req[t].path) = given

\* C8: a 2xx response ends the logical call, with no further attempt and no
\* sleep: for a method other than DELETE the result is the body parsed as
\* JSON, or an error when the body does not parse; for DELETE the result is
\* the response itself, whatever its body.
C8_SuccessResult ==
    \A t \in Threads :
        (InRequest(t) /\ Is2xx(resp[t])) =>
            /\ pc[t] = "done"
            /\ (req[t].method # "DELETE" /\ json(resp[t].body).ok) =>
                  result[t] = Return(json(resp[t].body))
            /\ (req[t].method # "DELETE" /\ ~json(resp[t].body).ok) =>
                  /\ result[t].kind = "raise"
                  /\ result[t].exc = "ValueError"
            /\ req[t].method = "DELETE" => result[t] = ReturnResponse(resp[t])

\* C8 witness: a DELETE answered 2xx with a body that is no JSON has returned
\* the response itself.
C8_Witness ==
    /\ pc[1] = "done"
    /\ req[1].method = "DELETE"
    /\ Is2xx(resp[1])
    /\ ~json(resp[1].body).ok
    /\ resp[1].body # NoBody
    /\ result[1] = ReturnResponse(resp[1])

StatusDone(t) == call[t].op = "status" /\ pc[t] = "done"

HasStatusField(r) ==
    json(r.body).ok /\ json(r.body).type = "object" /\ "status" \in DOMAIN json(r.body).map

\* C9 as stated: status() never raises; it returns the status field of the
\* parsed JSON when the request succeeds and an empty result when the request
\* fails for any reason: transport exception, malformed body, or non-2xx response.
C9_EmptyOnAnyFailure ==
    \A t \in Threads :
        StatusDone(t) =>
            /\ result[t].kind = "return"
            /\ (Is2xx(resp[t]) /\ HasStatusField(resp[t])) =>
                  result[t].value = JsonString(json(resp[t].body).map["status"])
            /\ (resp[t] = NoResp \/ ~json(resp[t].body).ok \/ ~Is2xx(resp[t])) =>
                  result[t].value = EmptyDict

\* C9 amended: status() never raises; whenever the GET returns a response whose
\* body parses as a JSON object with a status member it returns that member,
\* whatever the HTTP status code, and in every other case (transport
\* exception, malformed body, a body that is no object, no status member) it
\* returns an empty result.
C9_StatusIgnoresHttpStatus ==
    \A t \in Threads :
        StatusDone(t) =>
            /\ result[t].kind = "return"
            /\ (resp[t] # NoResp /\ HasStatusField(resp[t])) =>
                  result[t].value = JsonString(json(resp[t].body).map["status"])
            /\ (resp[t] = NoResp \/ ~HasStatusField(resp[t])) =>
                  result[t].value = EmptyDict

\* C9 witness: status() answered 500 with a body holding a status member has
\* returned that member.
C9_Witness ==
    /\ StatusDone(1)
    /\ resp[1].status = 500
    /\ HasStatusField(resp[1])
    /\ result[1] = Return(JsonString("up"))

\* C10: when two logical calls run concurrently on one client, a call fails for
\* throttling only after 5 retries of its own: the 503 responses of the other
\* call consume none of its retry budget.
C10_OwnRetryBudget ==
    \A t \in Threads :
        (pc[t] = "done" /\ result[t].exc = "HTTPError") =>
            /\ sleeps[t].count = RetryCeiling
            /\ n503[t] = RetryCeiling + 1

====
